---- MODULE Spec2Model ----
(***************************************************************************)
(* viper: a pipeline runner (functions.py, pipeline) threading a table     *)
(* through stage closures (select, filter, rename, arrange, mutate,        *)
(* mutate_row, distinct, group_by, summarize, left_join, anti_join, head,  *)
(* tail, to_csv, squeeze) that wrap the dataframe engine.                  *)
(*                                                                         *)
(* A table is [kind, columns, rows]; a row is [index, vals] where index is *)
(* the engine's row label (a tuple) and vals maps column name -> value.    *)
(* Mini-syntax strings ("k desc", "old = new", "t = sum(v)") are sequences *)
(* of tokens: a name, or one of the literals " = ", " desc", "(", ")".     *)
(***************************************************************************)
EXTENDS Integers, Sequences, FiniteSets, TLC

\* ---- bounds of the model ------------------------------------------------
MaxRows == 3
MaxStages == 2

\* ---- program constants --------------------------------------------------
HeadDefault == 5
TailDefault == 6

\* The engine's missing-value marker (NaN).
NaN == -1

Values == {1, 2}

\* ---- generic helpers ----------------------------------------------------
Range(s) == {s[j] : j \in DOMAIN s}

Min(S) == CHOOSE x \in S : \A y \in S : x <= y

Reverse(s) == [j \in 1..Len(s) |-> s[Len(s) + 1 - j]]

Where(s, keep) == LET n == Len(s)
                      K == {j \in 1..n : keep[j]}
                      Nth(m) == CHOOSE j \in K : Cardinality({h \in K : h < j}) = m - 1
                  IN  [m \in 1..Cardinality(K) |-> s[Nth(m)]]

RECURSIVE Flatten(_)
Flatten(ss) == IF ss = <<>> THEN <<>> ELSE Head(ss) \o Flatten(Tail(ss))

\* ---- tables -------------------------------------------------------------
Frame(columns, rows) == [kind |-> "table", columns |-> columns, rows |-> rows]

RangeIndex(rows) == [j \in 1..Len(rows) |-> [index |-> <<j - 1>>, vals |-> rows[j].vals]]

ColSet(df) == Range(df.columns)

Column(df, c) == [j \in 1..Len(df.rows) |-> df.rows[j].vals[c]]

Project(df, columns) ==
    Frame(columns, [j \in 1..Len(df.rows) |->
        [index |-> df.rows[j].index,
         vals  |-> [c \in Range(columns) |-> df.rows[j].vals[c]]]])

Take(df, keep) == Frame(df.columns, Where(df.rows, keep))

\* df[name] = values : replaces the column where it stands, or appends it.
Assign(df, name, values) ==
    Frame(IF name \in ColSet(df) THEN df.columns ELSE Append(df.columns, name),
          [j \in 1..Len(df.rows) |->
              [index |-> df.rows[j].index,
               vals  |-> [c \in ColSet(df) \cup {name} |->
                            IF c = name THEN values[j] ELSE df.rows[j].vals[c]]]])

\* ---- what a stage call produces ------------------------------------------
\* ret: the returned value; df: the received table object after the call;
\* alias: the returned value is the received object itself.
NoValue == [kind |-> "none"]

Ok(ret, df, alias) == [ok |-> TRUE, ret |-> ret, df |-> df, alias |-> alias, err |-> "none"]

Raise(err, df) == [ok |-> FALSE, ret |-> NoValue, df |-> df, alias |-> FALSE, err |-> err]

\* ---- str.split on token strings ------------------------------------------
RECURSIVE Split(_, _)
Split(s, sep) ==
    IF \A j \in DOMAIN s : s[j] # sep
    THEN <<s>>
    ELSE LET p == Min({j \in DOMAIN s : s[j] = sep})
         IN  <<SubSeq(s, 1, p - 1)>> \o Split(SubSeq(s, p + 1, Len(s)), sep)

RECURSIVE Join(_)
Join(s) == IF s = <<>> THEN "" ELSE Head(s) \o Join(Tail(s))


\* ---- select --------------------------------------------------------------
\* Mutant of select: the columns are dropped from the received table itself.
select_inplace(columns, df) ==
    IF Range(columns) \subseteq ColSet(df)
    THEN Ok(Project(df, columns), Project(df, columns), TRUE)
    ELSE Raise("KeyError", df)

\* df[list(columns)]
select(columns, df) ==
    IF Range(columns) \subseteq ColSet(df)
    THEN Ok(Project(df, columns), df, FALSE)
    ELSE Raise("KeyError", df)

\* ---- filter --------------------------------------------------------------
\* A criterion is the caller's lambda row: row[col] == eq.
Criterion(p, row, df) ==
    IF p.col \notin ColSet(df) THEN "KeyError"
    ELSE IF row.vals[p.col] = p.eq THEN "true" ELSE "false"

\* all(criteria[i](row) for i in range(len(criteria))) stops at the first
\* criterion that is not true.
AllCriteria(criteria, row, df) ==
    LET stop == {n \in 1..Len(criteria) : Criterion(criteria[n], row, df) # "true"}
    IN  IF stop = {} THEN "true" ELSE Criterion(criteria[Min(stop)], row, df)

filter(criteria, df) ==
    LET combined_criteria ==
            [j \in 1..Len(df.rows) |-> AllCriteria(criteria, df.rows[j], df)]
    IN  IF \E j \in 1..Len(df.rows) : combined_criteria[j] = "KeyError"
        THEN Raise("KeyError", df)
        ELSE Ok(Take(df, [j \in 1..Len(df.rows) |-> combined_criteria[j] = "true"]),
                df, FALSE)

\* ---- rename --------------------------------------------------------------
\* old_name, new_name = mapping.split(" = ")
parse_mapping(mapping) ==
    LET parts == Split(mapping, " = ")
    IN  <<Join(parts[1]), Join(parts[2])>>

\* dict(parse_mapping(mapping) for mapping in mappings): the last mapping of
\* an old name wins.
name_map(mappings) ==
    LET pairs == [n \in 1..Len(mappings) |-> parse_mapping(mappings[n])]
        Last(o) == CHOOSE n \in 1..Len(pairs) :
                      /\ pairs[n][1] = o
                      /\ \A m \in 1..Len(pairs) : pairs[m][1] = o => m <= n
    IN  [o \in {pairs[n][1] : n \in 1..Len(pairs)} |-> pairs[Last(o)][2]]

\* df.rename(columns=name_map): the engine's default ignores names of the map
\* that are no column of df.
rename(mappings, df) ==
    LET m == name_map(mappings)
        columns == [j \in 1..Len(df.columns) |->
                       IF df.columns[j] \in DOMAIN m THEN m[df.columns[j]]
                       ELSE df.columns[j]]
        Old(c) == df.columns[CHOOSE j \in 1..Len(columns) : columns[j] = c]
    IN  Ok(Frame(columns, [j \in 1..Len(df.rows) |->
               [index |-> df.rows[j].index,
                vals  |-> [c \in Range(columns) |-> df.rows[j].vals[Old(c)]]]]),
           df, FALSE)

\* ---- arrange -------------------------------------------------------------
\* column.endswith(" desc") -> (column[:-5], False), else (column, True)
parse_column(column) ==
    IF column # <<>> /\ column[Len(column)] = " desc"
    THEN [name |-> Join(SubSeq(column, 1, Len(column) - 1)), ascending |-> FALSE]
    ELSE [name |-> Join(column), ascending |-> TRUE]

\* Row a sorts strictly before row b; missing values sort last.
RECURSIVE Before(_, _, _)
Before(a, b, by) ==
    IF by = <<>> THEN FALSE
    ELSE LET x == a.vals[Head(by).name]
             y == b.vals[Head(by).name]
         IN  IF x = y THEN Before(a, b, Tail(by))
             ELSE IF x = NaN THEN FALSE
             ELSE IF y = NaN THEN TRUE
             ELSE IF Head(by).ascending THEN x < y ELSE x > y

Insert(sorted, r, by) ==
    LET p == Cardinality({j \in 1..Len(sorted) : ~Before(r, sorted[j], by)})
    IN  SubSeq(sorted, 1, p) \o <<r>> \o SubSeq(sorted, p + 1, Len(sorted))

RECURSIVE StableSort(_, _)
StableSort(rows, by) ==
    IF rows = <<>> THEN <<>>
    ELSE Insert(StableSort(SubSeq(rows, 1, Len(rows) - 1), by), rows[Len(rows)], by)

\* df.sort_values(by, ascending) with the default kind="quicksort": several
\* keys go through the engine's lexsort, which is stable; one key goes
\* through argsort(kind="quicksort"), whose order of equal keys is whatever the
\* build's quicksort gives (engine "stable": input order; "unstable":
\* reversed), rows with a missing key being appended in input order.
sort_values(df, by, engine) ==
    IF ~({by[n].name : n \in 1..Len(by)} \subseteq ColSet(df))
    THEN Raise("KeyError", df)
    ELSE IF Len(by) = 1
    THEN LET c == by[1].name
             non_nans == Where(df.rows, [j \in 1..Len(df.rows) |-> df.rows[j].vals[c] # NaN])
             nans == Where(df.rows, [j \in 1..Len(df.rows) |-> df.rows[j].vals[c] = NaN])
             sorted == IF engine = "stable" THEN StableSort(non_nans, by)
                       ELSE StableSort(Reverse(non_nans), by)
         IN  Ok(Frame(df.columns, sorted \o nans), df, FALSE)
    ELSE Ok(Frame(df.columns, StableSort(df.rows, by)), df, FALSE)

arrange(columns, df, engine) ==
    LET sorted_columns == [n \in 1..Len(columns) |-> parse_column(columns[n])]
    IN  sort_values(df, sorted_columns, engine)

\* ---- mutate / mutate_row -------------------------------------------------
\* A transformation is [name, src]: name = lambda df: df[src] for mutate,
\* name = lambda row: row[src] for mutate_row. The loop writes into df itself,
\* so what an earlier transformation assigned stays assigned when a later one
\* raises.
\* Mutant of mutate: every transformation is evaluated against the table as
\* it was received.
RECURSIVE AssignAll(_, _, _)
AssignAll(transformations, df, received) ==
    IF transformations = <<>> THEN Ok(df, df, TRUE)
    ELSE LET t == Head(transformations)
         IN  IF t.src \notin ColSet(received) THEN Raise("KeyError", df)
             ELSE AssignAll(Tail(transformations),
                            Assign(df, t.name, Column(received, t.src)), received)

mutate_parallel(transformations, df) == AssignAll(transformations, df, df)

RECURSIVE mutate(_, _)
mutate(transformations, df) ==
    IF transformations = <<>> THEN Ok(df, df, TRUE)
    ELSE LET t == Head(transformations)
         IN  IF t.src \notin ColSet(df) THEN Raise("KeyError", df)
             ELSE mutate(Tail(transformations), Assign(df, t.name, Column(df, t.src)))

\* df.apply(transformation, axis=1) calls the transformation once per row, so
\* a table without rows never evaluates row[src].
RECURSIVE mutate_row(_, _)
mutate_row(transformations, df) ==
    IF transformations = <<>> THEN Ok(df, df, TRUE)
    ELSE LET t == Head(transformations)
         IN  IF df.rows # <<>> /\ t.src \notin ColSet(df) THEN Raise("KeyError", df)
             ELSE mutate_row(Tail(transformations),
                             Assign(df, t.name,
                                    [j \in 1..Len(df.rows) |-> df.rows[j].vals[t.src]]))

\* ---- distinct ------------------------------------------------------------
\* Keeps the first row of every distinct tuple of values over subset.
duplicated(df, subset) ==
    [j \in 1..Len(df.rows) |->
        \E h \in 1..(j - 1) : \A c \in subset : df.rows[h].vals[c] = df.rows[j].vals[c]]

\* DataFrame.drop_duplicates(subset): a frame with no rows or no columns is
\* returned as a copy; an empty subset (not None) fails in the engine when it
\* unpacks the per-column labels.
drop_duplicates(df, subset, given) ==
    IF df.rows = <<>> \/ df.columns = <<>> THEN Ok(df, df, FALSE)
    ELSE IF given /\ ~(subset \subseteq ColSet(df)) THEN Raise("KeyError", df)
    ELSE IF given /\ subset = {} THEN Raise("ValueError", df)
    ELSE LET dup == duplicated(df, IF given THEN subset ELSE ColSet(df))
         IN  Ok(Take(df, [j \in 1..Len(df.rows) |-> ~dup[j]]), df, FALSE)

distinct(columns, keep_all, df) ==
    IF keep_all
    THEN drop_duplicates(df, Range(columns), TRUE)
    ELSE LET sel == select(columns, df)
         IN  IF ~sel.ok THEN sel
             ELSE LET out == drop_duplicates(sel.ret, {}, FALSE)
                  IN  [out EXCEPT !.df = df]

\* ---- group_by / summarize ------------------------------------------------
\* df.groupby(list(columns)): a grouped view of df, nothing computed yet.
group_by(columns, df) ==
    IF Range(columns) \subseteq ColSet(df)
    THEN Ok([kind |-> "grouped", columns |-> df.columns, rows |-> df.rows,
             by |-> columns], df, FALSE)
    ELSE Raise("KeyError", df)

\* col, func = aggregation.split(" = "); func_name, col_name = func[:-1].split("(")
parse_aggregation(aggregation) ==
    LET halves == Split(aggregation, " = ")
        func == halves[2]
        call == Split(SubSeq(func, 1, Len(func) - 1), "(")
    IN  [col |-> Join(halves[1]), func_name |-> Join(call[1]), col_name |-> Join(call[2])]

\* aggregations_dict[col] = func_name, as the list of (key, value) in the
\* dict's order: a key stands where it was first inserted and holds the value
\* assigned last.
aggregations_dict(aggregations) ==
    LET parsed == [n \in 1..Len(aggregations) |-> parse_aggregation(aggregations[n])]
        first == Where(parsed, [n \in 1..Len(parsed) |->
                     \A m \in 1..(n - 1) : parsed[m].col # parsed[n].col])
        Last(c) == CHOOSE n \in 1..Len(parsed) :
                      /\ parsed[n].col = c
                      /\ \A m \in 1..Len(parsed) : parsed[m].col = c => m <= n
    IN  [n \in 1..Len(first) |->
            [col |-> first[n].col, func_name |-> parsed[Last(first[n].col)].func_name]]

RECURSIVE Sum(_)
Sum(s) == IF s = <<>> THEN 0 ELSE Head(s) + Sum(Tail(s))

AggregationNames == {"sum", "max", "min", "count"}

\* The engine's named aggregations; missing values are skipped.
Aggregate(func_name, values) ==
    LET present == Where(values, [j \in 1..Len(values) |-> values[j] # NaN])
    IN  CASE func_name = "sum"   -> Sum(present)
          [] func_name = "count" -> Len(present)
          [] func_name = "max"   -> IF present = <<>> THEN NaN
                                    ELSE CHOOSE x \in Range(present) : \A y \in Range(present) : y <= x
          [] func_name = "min"   -> IF present = <<>> THEN NaN ELSE Min(Range(present))

\* Lexicographic order of two key tuples of the same length.
RECURSIVE LexLess(_, _)
LexLess(a, b) ==
    IF a = <<>> THEN FALSE
    ELSE IF Head(a) = Head(b) THEN LexLess(Tail(a), Tail(b))
    ELSE Head(a) < Head(b)

RECURSIVE SortedKeys(_)
SortedKeys(S) ==
    IF S = {} THEN <<>>
    ELSE LET least == CHOOSE a \in S : \A b \in S : ~LexLess(b, a)
         IN  <<least>> \o SortedKeys(S \ {least})

KeyOf(row, by) == [n \in 1..Len(by) |-> row.vals[by[n]]]

\* df.agg(dict). On a grouped table: one row per group, labelled by the
\* group's key (groups in ascending key order, rows with a missing key left
\* out), one column per key of the dict, holding the named function of THAT
\* column. On a plain table: the series of the named function of each column.
agg(g, dict) ==
    LET cols == [n \in 1..Len(dict) |-> dict[n].col]
        by == IF g.kind = "grouped" THEN g.by ELSE <<>>
        present == {j \in 1..Len(g.rows) :
                       \A n \in 1..Len(by) : g.rows[j].vals[by[n]] # NaN}
        keys == SortedKeys({KeyOf(g.rows[j], by) : j \in present})
        Members(key) == Where(g.rows, [j \in 1..Len(g.rows) |->
                            j \in present /\ KeyOf(g.rows[j], by) = key])
        Cell(key, n) ==
            LET rows == Members(key)
            IN  Aggregate(dict[n].func_name,
                          [j \in 1..Len(rows) |-> rows[j].vals[dict[n].col]])
    IN  IF ~(Range(cols) \subseteq (Range(g.columns) \ Range(by)))
        THEN Raise("KeyError", g)
        ELSE IF \E n \in 1..Len(dict) : dict[n].func_name \notin AggregationNames
        THEN Raise("AttributeError", g)
        ELSE IF g.kind = "grouped"
        THEN Ok(Frame(cols, [m \in 1..Len(keys) |->
                    [index |-> keys[m],
                     vals  |-> [c \in Range(cols) |->
                                  Cell(keys[m], CHOOSE n \in 1..Len(cols) : cols[n] = c)]]]),
                g, FALSE)
        ELSE Ok([kind |-> "series", name |-> <<>>,
                 index |-> [n \in 1..Len(cols) |-> <<cols[n]>>],
                 values |-> [n \in 1..Len(cols) |->
                               Aggregate(dict[n].func_name, Column(g, cols[n]))]],
                g, FALSE)

summarize(aggregations, df) == agg(df, aggregations_dict(aggregations))

\* ---- joins ---------------------------------------------------------------
\* by is [list, names]: a str (list = FALSE, one name) or a list of names.
\* left.merge(right, on=by, how="left"): every left row, in order, once per
\* matching right row (right order), or once with the right columns missing;
\* a non-key name the two tables share gets the suffixes _x / _y; the result
\* is labelled 0..n-1.
merge(left, right, by) ==
    LET on == Range(by.names)
        overlap == (ColSet(left) \cap ColSet(right)) \ on
        rcols == Where(right.columns,
                       [j \in 1..Len(right.columns) |-> right.columns[j] \notin on])
        nl == Len(left.columns)
        columns == [p \in 1..(nl + Len(rcols)) |->
                      IF p <= nl
                      THEN IF left.columns[p] \in overlap
                           THEN left.columns[p] \o "_x" ELSE left.columns[p]
                      ELSE IF rcols[p - nl] \in overlap
                           THEN rcols[p - nl] \o "_y" ELSE rcols[p - nl]]
        Matches(l) == Where(right.rows, [j \in 1..Len(right.rows) |->
                          \A c \in on : right.rows[j].vals[c] = l.vals[c]])
        Joined(l, r, matched) ==
            [index |-> <<>>,
             vals  |-> [c \in Range(columns) |->
                          LET p == CHOOSE q \in 1..Len(columns) : columns[q] = c
                          IN  IF p <= nl THEN l.vals[left.columns[p]]
                              ELSE IF matched THEN r.vals[rcols[p - nl]] ELSE NaN]]
        RowsFor(l) ==
            LET ms == Matches(l)
            IN  IF ms = <<>> THEN <<Joined(l, l, FALSE)>>
                ELSE [m \in 1..Len(ms) |-> Joined(l, ms[m], TRUE)]
    IN  IF ~(on \subseteq ColSet(left) /\ on \subseteq ColSet(right))
        THEN Raise("KeyError", left)
        ELSE IF Cardinality(Range(columns)) < Len(columns)
        THEN Raise("MergeError", left)
        ELSE Ok(Frame(columns,
                      RangeIndex(Flatten([j \in 1..Len(left.rows) |-> RowsFor(left.rows[j])]))),
                left, FALSE)

left_join(right, by, left) == merge(left, right, by)

\* left[~left[by].isin(right[by])]
\* by a str: left[by] is a column and isin tests membership among right's
\* values, the boolean column then selecting rows.
\* by a list: left[by] is a frame and isin(frame) compares cell by cell with
\* the right cell of the SAME row label and column (a missing cell matches
\* nothing); indexing left with the negated boolean frame is left.where(...):
\* every row stays, and each cell whose flag is false or absent (all columns
\* outside by) becomes missing.
anti_join(right, by, left) ==
    LET names == Range(by.names)
        RightCell(label, c) ==
            IF \E j \in 1..Len(right.rows) : right.rows[j].index = label
            THEN right.rows[CHOOSE j \in 1..Len(right.rows) : right.rows[j].index = label].vals[c]
            ELSE NaN
        IsIn(row, c) == /\ row.vals[c] # NaN
                        /\ row.vals[c] = RightCell(row.index, c)
    IN  IF ~(names \subseteq ColSet(left)) \/ ~(names \subseteq ColSet(right))
        THEN Raise("KeyError", left)
        ELSE IF ~by.list
        THEN LET c == by.names[1]
             IN  Ok(Take(left, [j \in 1..Len(left.rows) |->
                        left.rows[j].vals[c] \notin Range(Column(right, c))]),
                    left, FALSE)
        ELSE Ok(Frame(left.columns, [j \in 1..Len(left.rows) |->
                    [index |-> left.rows[j].index,
                     vals  |-> [c \in ColSet(left) |->
                                  IF c \in names /\ ~IsIn(left.rows[j], c)
                                  THEN left.rows[j].vals[c] ELSE NaN]]]),
                left, FALSE)

\* ---- head / tail ---------------------------------------------------------
\* df.tail(n), n >= 0
tail(n, df) ==
    LET len == Len(df.rows)
    IN  Ok(Frame(df.columns, SubSeq(df.rows, len - (IF n < len THEN n ELSE len) + 1, len)),
           df, FALSE)

\* df.head(n), n >= 0
head(n, df) ==
    Ok(Frame(df.columns, SubSeq(df.rows, 1, IF n < Len(df.rows) THEN n ELSE Len(df.rows))),
       df, FALSE)

\* ---- to_csv --------------------------------------------------------------
\* What df.to_csv(filename, index=index) writes: a header line and one line
\* per row, the row label first when index is set.
csv_text(df, index) ==
    [header |-> IF index THEN <<"">> \o df.columns ELSE df.columns,
     lines  |-> [j \in 1..Len(df.rows) |->
                   (IF index THEN <<df.rows[j].index>> ELSE <<>>)
                   \o [p \in 1..Len(df.columns) |-> df.rows[j].vals[df.columns[p]]]]]

\* The paths of the model that cannot be written.
Unwritable == {"no_such_dir/out.csv"}

\* df.to_csv(filename, index=index, **kwargs); return df
to_csv(filename, index, df) ==
    IF filename \in Unwritable THEN Raise("OSError", df) ELSE Ok(df, df, TRUE)

\* ---- squeeze -------------------------------------------------------------
\* df.squeeze(): axes of length 1 are dropped: a 1x1 table gives its value,
\* one column gives that column, one row gives that row (labelled by the
\* column names), anything else the table.
squeeze(df) ==
    LET nrows == Len(df.rows)
        ncols == Len(df.columns)
    IN  IF nrows = 1 /\ ncols = 1
        THEN Ok([kind |-> "scalar", value |-> df.rows[1].vals[df.columns[1]]], df, FALSE)
        ELSE IF ncols = 1
        THEN Ok([kind |-> "series", name |-> <<df.columns[1]>>,
                 index |-> [j \in 1..nrows |-> df.rows[j].index],
                 values |-> Column(df, df.columns[1])], df, FALSE)
        ELSE IF nrows = 1
        THEN Ok([kind |-> "series", name |-> df.rows[1].index,
                 index |-> [p \in 1..ncols |-> <<df.columns[p]>>],
                 values |-> [p \in 1..ncols |-> df.rows[1].vals[df.columns[p]]]], df, FALSE)
        ELSE Ok(df, df, FALSE)

\* ---- the stages the caller builds -----------------------------------------
Table(columns, tuples) ==
    Frame(columns, [j \in 1..Len(tuples) |->
        [index |-> <<j - 1>>,
         vals  |-> [c \in Range(columns) |->
                      tuples[j][CHOOSE p \in 1..Len(columns) : columns[p] = c]]]])

\* Every table over the columns k, v with one to MaxRows rows.
Tables ==
    UNION {{Table(<<"k", "v">>, t) : t \in [1..n -> Values \X Values]} : n \in 1..MaxRows}

RunnerTables ==
    {Table(<<"k", "v">>, <<<<2, 1>>, <<1, 2>>, <<1, 1>>>>),
     Table(<<"k", "v">>, <<<<1, 2>>, <<1, 2>>>>)}

\* The tables captured by the join stages when they are built.
RightTables ==
    [R1 |-> Table(<<"k", "r">>, <<<<1, 1>>, <<1, 2>>>>),
     R2 |-> Table(<<"k", "v">>, <<<<1, 2>>>>)]

Engines == {"stable", "unstable"}

Str(name) == [list |-> FALSE, names |-> <<name>>]
List(names) == [list |-> TRUE, names |-> names]

Selects == {[op |-> "select", columns |-> c] : c \in {<<"k">>, <<"v", "k">>, <<"w">>}}

Filters ==
    {[op |-> "filter", criteria |-> c] :
        c \in {<<[col |-> "k", eq |-> 1]>>,
               <<[col |-> "v", eq |-> 2], [col |-> "k", eq |-> 2]>>,
               <<[col |-> "k", eq |-> 1], [col |-> "w", eq |-> 1]>>}}

Renames ==
    {[op |-> "rename", mappings |-> m] :
        m \in {<<<<"k", " = ", "z">>>>, <<<<"q", " = ", "z">>>>}}

Arranges ==
    {[op |-> "arrange", specs |-> s] :
        s \in {<<<<"k">>>>, <<<<"k", " desc">>>>, <<<<"k">>, <<"v", " desc">>>>,
               <<<<"v", " desc">>, <<"k">>>>}}

Transformations ==
    {<<[name |-> "k", src |-> "v"], [name |-> "w", src |-> "k"]>>,
     <<[name |-> "w", src |-> "k"], [name |-> "v", src |-> "w"]>>,
     <<[name |-> "w", src |-> "v"], [name |-> "u", src |-> "q"]>>}

Mutates == {[op |-> "mutate", transformations |-> t] : t \in Transformations}

MutateRows == {[op |-> "mutate_row", transformations |-> t] : t \in Transformations}

Distincts ==
    {[op |-> "distinct", columns |-> c, keep_all |-> b] :
        c \in {<<>>, <<"k">>, <<"v", "k">>}, b \in BOOLEAN}

GroupBys == {[op |-> "group_by", columns |-> c] : c \in {<<"k">>, <<"k", "v">>}}

Summaries ==
    {[op |-> "summarize", aggregations |-> a] :
        a \in {<<<<"total", " = ", "sum", "(", "v", ")">>>>,
               <<<<"v", " = ", "sum", "(", "v", ")">>>>,
               <<<<"v", " = ", "max", "(", ")">>>>}}

LeftJoins == {[op |-> "left_join", right |-> "R1", by |-> b] : b \in {Str("k"), List(<<"k">>)}}

AntiJoins ==
    {[op |-> "anti_join", right |-> "R2", by |-> b] :
        b \in {Str("k"), List(<<"k">>), List(<<"k", "v">>)}}

Heads == {[op |-> "head", n |-> n] : n \in {1, HeadDefault}}

Tails == {[op |-> "tail", n |-> n] : n \in {1, TailDefault}}

ToCsvs ==
    {[op |-> "to_csv", filename |-> f, index |-> b] :
        f \in {"out.csv", "no_such_dir/out.csv"}, b \in BOOLEAN}

Squeezes == {[op |-> "squeeze"]}

Stages ==
    Selects \cup Filters \cup Renames \cup Arranges \cup Mutates \cup MutateRows
    \cup Distincts \cup GroupBys \cup Summaries \cup LeftJoins \cup AntiJoins
    \cup Heads \cup Tails \cup ToCsvs \cup Squeezes

\* One or two stages of each kind, for the runs with several stages.
RunnerStages ==
    {s \in Stages :
        \/ s.op = "select" /\ s.columns \in {<<"k">>, <<"w">>}
        \/ s.op = "filter" /\ Len(s.criteria) = 1
        \/ s.op = "rename" /\ s.mappings[1][1] = "k"
        \/ s.op = "arrange" /\ s.specs = <<<<"k">>>>
        \/ s.op \in {"mutate", "mutate_row"} /\ s.transformations[1].name = "k"
        \/ s.op = "distinct" /\ s.columns = <<"k">> /\ s.keep_all
        \/ s.op = "group_by" /\ s.columns = <<"k">>
        \/ s.op = "summarize" /\ s.aggregations[1][1] = "v" /\ s.aggregations[1][3] = "sum"
        \/ s.op = "left_join" /\ ~s.by.list
        \/ s.op = "anti_join" /\ ~s.by.list
        \/ s.op \in {"head", "tail"} /\ s.n = 1
        \/ s.op = "to_csv" /\ s.filename = "out.csv" /\ ~s.index
        \/ s.op = "squeeze"}

\* A grouped table goes only to summarize and summarize takes nothing else;
\* a series, a scalar and a table without columns end the program.
Final(s) == \/ s.op = "squeeze"
            \/ s.op = "distinct" /\ s.columns = <<>> /\ ~s.keep_all

WellTyped(fs) ==
    \A n \in 1..Len(fs) :
        /\ fs[n].op = "summarize" => n > 1 /\ fs[n - 1].op = "group_by"
        /\ fs[n].op = "group_by" /\ n < Len(fs) => fs[n + 1].op = "summarize"
        /\ Final(fs[n]) => n = Len(fs)

StageLists(S, len) == UNION {[1..n -> S] : n \in 0..len}

\* A program is the list of the caller's successive pipeline calls, each
\* taking the value the previous one returned.
ShortPrograms == {<<fs>> : fs \in {gs \in StageLists(Stages, 2) :
                     WellTyped(gs) /\ (Len(gs) = 2 => gs[1].op = "group_by")}}

RunnerPrograms ==
    LET lists == {fs \in StageLists(RunnerStages, MaxStages) : WellTyped(fs)}
    IN  {<<fs>> : fs \in lists}
        \cup UNION {{<<SubSeq(fs, 1, c), SubSeq(fs, c + 1, Len(fs))>> : c \in 0..Len(fs)} :
                       fs \in lists}

\* ---- the runner ----------------------------------------------------------
VARIABLES
    data,      \* the caller's table object (its current contents)
    rights,    \* the table objects captured by the join stages
    engine,    \* which build of the dataframe engine runs
    program,   \* the caller's pipeline calls, one stage list each
    ncalls,    \* how many of them have been entered
    funcs,     \* pipeline's *funcs
    i,         \* position of the for loop in funcs
    pc,        \* "idle" (caller), "loop" (inside pipeline), "raised"
    result,    \* pipeline's result; outside a call, the value the caller holds
    same,      \* result is the caller's table object itself
    error,     \* the exception that reached the caller
    files,     \* filename -> what to_csv wrote
    entry,     \* history: the value the running call received as data
    calls,     \* history: the stage invocations of the running call
    initial    \* history: the caller's table as first handed over

vars == <<data, rights, engine, program, ncalls, funcs, i, pc, result, same,
          error, files, entry, calls, initial>>

Ref(val, alias) == [val |-> val, same |-> alias]

\* for func in funcs: the func of the i-th iteration
NextFunc(fs, n) == fs[n]

\* Mutant of Invoke: func(result) is called and its value dropped.
InvokeDropped(w, out) ==
    [result |-> IF out.ok THEN w.result ELSE out.ret,
     same   |-> IF out.ok THEN w.same ELSE FALSE,
     data   |-> IF w.same THEN out.df ELSE w.data,
     files  |-> w.files,
     pc     |-> IF out.ok THEN "loop" ELSE "raised",
     error  |-> out.err]

\* Mutant of Invoke: an exception of func is caught and the loop goes on.
InvokeCaught(w, out) ==
    [result |-> IF out.ok THEN out.ret ELSE w.result,
     same   |-> IF out.ok THEN w.same /\ out.alias ELSE w.same,
     data   |-> IF w.same THEN out.df ELSE w.data,
     files  |-> w.files,
     pc     |-> "loop",
     error  |-> out.err]

\* result = func(result): what the names hold once the call is over. An
\* exception leaves the frame; nothing in pipeline catches it.
Invoke(w, out) ==
    [result |-> out.ret,
     same   |-> w.same /\ out.alias,
     data   |-> IF w.same THEN out.df ELSE w.data,
     files  |-> w.files,
     pc     |-> IF out.ok THEN "loop" ELSE "raised",
     error  |-> out.err]

\* Mutant of Return: pipeline returns data, the value it was given.
ReturnData(res, ent) == ent

\* return result
Return(res, ent) == res

\* The file to_csv leaves behind, when the write succeeds.
Written(w, f, out) ==
    IF f.op = "to_csv" /\ out.ok
    THEN [n \in DOMAIN w.files \cup {f.filename} |->
             IF n = f.filename THEN csv_text(w.result, f.index) ELSE w.files[n]]
    ELSE w.files

\* func(result) for a stage closure
Apply(f, df, rs, eng) ==
    CASE f.op = "select"     -> select(f.columns, df)
      [] f.op = "filter"     -> filter(f.criteria, df)
      [] f.op = "rename"     -> rename(f.mappings, df)
      [] f.op = "arrange"    -> arrange(f.specs, df, eng)
      [] f.op = "mutate"     -> mutate(f.transformations, df)
      [] f.op = "mutate_row" -> mutate_row(f.transformations, df)
      [] f.op = "distinct"   -> distinct(f.columns, f.keep_all, df)
      [] f.op = "group_by"   -> group_by(f.columns, df)
      [] f.op = "summarize"  -> summarize(f.aggregations, df)
      [] f.op = "left_join"  -> left_join(rs[f.right], f.by, df)
      [] f.op = "anti_join"  -> anti_join(rs[f.right], f.by, df)
      [] f.op = "head"       -> head(f.n, df)
      [] f.op = "tail"       -> tail(f.n, df)
      [] f.op = "to_csv"     -> to_csv(f.filename, f.index, df)
      [] f.op = "squeeze"    -> squeeze(df)

\* pipeline(data, *funcs) as one evaluation: the loop from its n-th iteration,
\* then the return.
RECURSIVE Loop(_, _, _, _, _)
Loop(w, fs, n, rs, eng) ==
    IF w.pc = "raised" \/ n > Len(fs) THEN w
    ELSE LET f == NextFunc(fs, n)
             out == Apply(f, w.result, rs, eng)
         IN  Loop([Invoke(w, out) EXCEPT !.files = Written(w, f, out)], fs, n + 1, rs, eng)

pipeline(w, fs, rs, eng) ==
    LET end == Loop([w EXCEPT !.pc = "loop"], fs, 1, rs, eng)
        ret == Return(Ref(end.result, end.same), Ref(w.result, w.same))
    IN  IF end.pc = "raised" THEN end
        ELSE [end EXCEPT !.pc = "idle", !.result = ret.val, !.same = ret.same]

World == [result |-> result, same |-> same, data |-> data, files |-> files,
          pc |-> pc, error |-> error]

\* One iteration of the loop: funcs[i] is called with result.
Step(f, out) ==
    LET w == [Invoke(World, out) EXCEPT !.files = Written(World, f, out)]
    IN  /\ result' = w.result
        /\ same' = w.same
        /\ data' = w.data
        /\ files' = w.files
        /\ pc' = w.pc
        /\ error' = w.error
        /\ i' = i + 1
        /\ calls' = Append(calls, [stage    |-> f,
                                   received |-> Ref(result, same),
                                   after    |-> out.df,
                                   returned |-> Ref(out.ret, same /\ out.alias),
                                   raised   |-> out.err])
        /\ UNCHANGED <<rights, engine, program, ncalls, funcs, entry, initial>>

AtStage(op) == /\ pc = "loop"
               /\ i <= Len(funcs)
               /\ NextFunc(funcs, i).op = op

Init ==
    /\ data \in Tables
    /\ program \in ShortPrograms
    /\ rights = RightTables
    /\ engine \in Engines
    /\ ncalls = 0
    /\ funcs = <<>>
    /\ i = 1
    /\ pc = "idle"
    /\ result = data
    /\ same = TRUE
    /\ error = "none"
    /\ files = <<>>
    /\ entry = Ref(data, TRUE)
    /\ calls = <<>>
    /\ initial = data

InitRunner ==
    /\ data \in RunnerTables
    /\ program \in RunnerPrograms
    /\ rights = RightTables
    /\ engine \in Engines
    /\ ncalls = 0
    /\ funcs = <<>>
    /\ i = 1
    /\ pc = "idle"
    /\ result = data
    /\ same = TRUE
    /\ error = "none"
    /\ files = <<>>
    /\ entry = Ref(data, TRUE)
    /\ calls = <<>>
    /\ initial = data

\* pipeline(value, *program[ncalls + 1]); result = data
PipelineCall ==
    /\ pc = "idle"
    /\ ncalls < Len(program)
    /\ ncalls' = ncalls + 1
    /\ funcs' = program[ncalls + 1]
    /\ i' = 1
    /\ pc' = "loop"
    /\ entry' = Ref(result, same)
    /\ calls' = <<>>
    /\ UNCHANGED <<data, rights, engine, program, result, same, error, files, initial>>

\* return result
PipelineReturn ==
    /\ pc = "loop"
    /\ i > Len(funcs)
    /\ pc' = "idle"
    /\ result' = Return(Ref(result, same), entry).val
    /\ same' = Return(Ref(result, same), entry).same
    /\ UNCHANGED <<data, rights, engine, program, ncalls, funcs, i, error, files,
                   entry, calls, initial>>

Select ==
    /\ AtStage("select")
    /\ LET f == NextFunc(funcs, i) IN Step(f, select(f.columns, result))

Filter ==
    /\ AtStage("filter")
    /\ LET f == NextFunc(funcs, i) IN Step(f, filter(f.criteria, result))

Rename ==
    /\ AtStage("rename")
    /\ LET f == NextFunc(funcs, i) IN Step(f, rename(f.mappings, result))

Arrange ==
    /\ AtStage("arrange")
    /\ LET f == NextFunc(funcs, i) IN Step(f, arrange(f.specs, result, engine))

Mutate ==
    /\ AtStage("mutate")
    /\ LET f == NextFunc(funcs, i) IN Step(f, mutate(f.transformations, result))

MutateRow ==
    /\ AtStage("mutate_row")
    /\ LET f == NextFunc(funcs, i) IN Step(f, mutate_row(f.transformations, result))

Distinct ==
    /\ AtStage("distinct")
    /\ LET f == NextFunc(funcs, i) IN Step(f, distinct(f.columns, f.keep_all, result))

GroupBy ==
    /\ AtStage("group_by")
    /\ LET f == NextFunc(funcs, i) IN Step(f, group_by(f.columns, result))

Summarize ==
    /\ AtStage("summarize")
    /\ LET f == NextFunc(funcs, i) IN Step(f, summarize(f.aggregations, result))

LeftJoin ==
    /\ AtStage("left_join")
    /\ LET f == NextFunc(funcs, i) IN Step(f, left_join(rights[f.right], f.by, result))

AntiJoin ==
    /\ AtStage("anti_join")
    /\ LET f == NextFunc(funcs, i) IN Step(f, anti_join(rights[f.right], f.by, result))

HeadStage ==
    /\ AtStage("head")
    /\ LET f == NextFunc(funcs, i) IN Step(f, head(f.n, result))

TailStage ==
    /\ AtStage("tail")
    /\ LET f == NextFunc(funcs, i) IN Step(f, tail(f.n, result))

ToCsv ==
    /\ AtStage("to_csv")
    /\ LET f == NextFunc(funcs, i) IN Step(f, to_csv(f.filename, f.index, result))

Squeeze ==
    /\ AtStage("squeeze")
    /\ LET f == NextFunc(funcs, i) IN Step(f, squeeze(result))

Next ==
    \/ PipelineCall
    \/ PipelineReturn
    \/ Select
    \/ Filter
    \/ Rename
    \/ Arrange
    \/ Mutate
    \/ MutateRow
    \/ Distinct
    \/ GroupBy
    \/ Summarize
    \/ LeftJoin
    \/ AntiJoin
    \/ HeadStage
    \/ TailStage
    \/ ToCsv
    \/ Squeeze

Spec == Init /\ [][Next]_vars

SpecRunner == InitRunner /\ [][Next]_vars

\* ==== the claims ===========================================================
Last(s) == s[Len(s)]

IsMutate(f) == f.op \in {"mutate", "mutate_row"}

\* C1: inside and after a pipeline call the stages invoked so far are exactly
\* funcs[1], funcs[2], ... in that order, once each; the first received the
\* value pipeline was given, every other one the value its predecessor
\* returned; the call returns what the last stage returned, and with no stage
\* it returns the very value it was given.
C1_StagesInOrder ==
    (ncalls >= 1 /\ pc \in {"loop", "idle"}) =>
        /\ Len(calls) = i - 1
        /\ Len(calls) <= Len(funcs)
        /\ \A n \in 1..Len(calls) :
              /\ calls[n].stage = funcs[n]
              /\ calls[n].raised = "none"
              /\ calls[n].received = IF n = 1 THEN entry ELSE calls[n - 1].returned
        /\ Ref(result, same) = IF calls = <<>> THEN entry ELSE Last(calls).returned
        /\ pc = "idle" => Len(calls) = Len(funcs)
        /\ (pc = "idle" /\ funcs = <<>> /\ same) => data = entry.val

\* C1 witness: a call of two stages has returned, the second stage having
\* received a value the first one made.
C1_Witness ==
    /\ pc = "idle"
    /\ Len(funcs) = 2
    /\ Len(calls) = 2
    /\ calls[2].received.val # entry.val
    /\ result # entry.val

\* What evaluating pipeline(initial, *A, *B) leaves, from the same table.
Flat ==
    pipeline([result |-> initial, same |-> TRUE, data |-> initial, files |-> <<>>,
              pc |-> "idle", error |-> "none"],
             Flatten(program), RightTables, engine)

\* C2: when pipeline(pipeline(T, *A), *B) has ended (returned, or raised in
\* either call), its result, the caller's table, the files written and the
\* error are those of pipeline(T, *A, *B) run on an equal table.
C2_Associative ==
    (Len(program) = 2 /\ (pc = "raised" \/ (pc = "idle" /\ ncalls = 2))) =>
        /\ result = Flat.result
        /\ same = Flat.same
        /\ data = Flat.data
        /\ files = Flat.files
        /\ error = Flat.error
        /\ pc = Flat.pc

\* C2 witness: both calls returned, A held a mutate that changed the caller's
\* table and B made a new value out of A's result.
C2_Witness ==
    /\ Len(program) = 2
    /\ pc = "idle"
    /\ ncalls = 2
    /\ \E n \in 1..Len(program[1]) : IsMutate(program[1][n])
    /\ program[2] # <<>>
    /\ data # initial
    /\ ~same

\* C3: an exception of a stage ends the run there: it is the error the caller
\* sees, the stages before it had returned, no result is returned, and no
\* step (no later stage, no return, no further call) can follow.
C3_FailFast ==
    (error # "none" \/ pc = "raised") =>
        /\ pc = "raised"
        /\ calls # <<>>
        /\ Last(calls).raised = error
        /\ error # "none"
        /\ Last(calls).stage = funcs[Len(calls)]
        /\ \A n \in 1..(Len(calls) - 1) : calls[n].raised = "none"
        /\ result = NoValue
        /\ ~ENABLED Next

\* C3 witness: the first of two stages raised; the second never ran.
C3_Witness ==
    /\ pc = "raised"
    /\ Len(funcs) = 2
    /\ Len(calls) = 1
    /\ error = "KeyError"

\* The column of the received table whose values column c holds just before
\* the n-th transformation of ts runs.
RECURSIVE Source(_, _, _)
Source(ts, n, c) ==
    IF n = 1 THEN c
    ELSE IF ts[n - 1].name = c THEN Source(ts, n - 1, ts[n - 1].src)
    ELSE Source(ts, n - 1, c)

\* The columns ts adds to a table with columns cols, in the order they appear.
NewColumns(ts, cols) ==
    LET fresh == [n \in 1..Len(ts) |->
                     /\ ts[n].name \notin Range(cols)
                     /\ \A m \in 1..(n - 1) : ts[m].name # ts[n].name]
    IN  [n \in 1..Len(Where(ts, fresh)) |-> Where(ts, fresh)[n].name]

\* C4: after a mutate or mutate_row stage returned, every column holds what
\* the transformations give when each reads the table left by the ones before
\* it: column c holds the received column that Source traces it back to
\* through the earlier assignments of the same call.
C4_MutateInOrder ==
    \A n \in 1..Len(calls) :
        (IsMutate(calls[n].stage) /\ calls[n].raised = "none") =>
            LET ts == calls[n].stage.transformations
                before == calls[n].received.val
                after == calls[n].after
            IN  /\ after.columns = before.columns \o NewColumns(ts, before.columns)
                /\ Len(after.rows) = Len(before.rows)
                /\ \A j \in 1..Len(after.rows) :
                      /\ after.rows[j].index = before.rows[j].index
                      /\ \A c \in Range(after.columns) :
                            after.rows[j].vals[c]
                                = before.rows[j].vals[Source(ts, Len(ts) + 1, c)]

\* C4 witness: mutate(k = df.v, w = df.k) ran on a table where k and v
\* differ in some row, so w shows which k the second transformation read.
C4_Witness ==
    /\ calls # <<>>
    /\ Last(calls).stage.op = "mutate"
    /\ Last(calls).raised = "none"
    /\ Last(calls).stage.transformations[2] = [name |-> "w", src |-> "k"]
    /\ Last(calls).stage.transformations[1] = [name |-> "k", src |-> "v"]
    /\ \E j \in 1..Len(initial.rows) : initial.rows[j].vals["k"] # initial.rows[j].vals["v"]

\* C5: a stage call leaves the captured right tables as they were; a stage
\* other than mutate / mutate_row leaves the table it received, and the
\* caller's table, as they were; mutate / mutate_row write into the received
\* object, return that object, and touch the caller's table only when it is
\* that object.
C5_Frame ==
    [][Len(calls') = Len(calls) + 1 =>
        LET c == Last(calls')
        IN  /\ rights' = rights
            /\ ~IsMutate(c.stage) =>
                  /\ c.after = c.received.val
                  /\ data' = data
            /\ IsMutate(c.stage) =>
                  /\ c.raised = "none" => c.returned = Ref(c.after, c.received.same)
                  /\ data' = IF c.received.same THEN c.after ELSE data]_vars

\* C5 witness: after a stage that built a new table, a mutate stage wrote
\* into that table and the caller's table still is as first handed over.
C5_Witness ==
    /\ Len(calls) = 2
    /\ IsMutate(calls[2].stage)
    /\ calls[2].raised = "none"
    /\ calls[2].after # calls[2].received.val
    /\ ~calls[2].received.same
    /\ data = initial

\* The rows of df that are the first with their tuple of values over cols.
FirstOccurrences(df, cols) ==
    Take(df, [j \in 1..Len(df.rows) |->
        \A h \in 1..(j - 1) : \E c \in Range(cols) : df.rows[h].vals[c] # df.rows[j].vals[c]])

\* C6: a distinct stage whose columns all exist returns, in row order, the
\* first row of every distinct tuple over the dedup columns (the given ones,
\* or all columns when none is given), with the dedup columns only, or with
\* all columns when keep_all is set.
C6_DistinctFirstOccurrence ==
    \A n \in 1..Len(calls) :
        LET c == calls[n]
            df == c.received.val
            dedup == IF c.stage.columns = <<>> THEN df.columns ELSE c.stage.columns
        IN  (c.stage.op = "distinct" /\ Range(c.stage.columns) \subseteq ColSet(df)) =>
                /\ c.raised = "none"
                /\ c.returned.val =
                      Project(FirstOccurrences(df, dedup),
                              IF c.stage.keep_all THEN df.columns ELSE dedup)

\* C7: a summarize stage on a grouped table returns one row per group, and for
\* every spec "new = function(source)" whose source is a column of the table
\* the row's column new holds function over the group's values of source.
C7_SummarizeSourceColumn ==
    \A n \in 1..Len(calls) :
        LET c == calls[n]
            g == c.received.val
            specs == [m \in 1..Len(c.stage.aggregations) |->
                         parse_aggregation(c.stage.aggregations[m])]
            keys == {KeyOf(g.rows[j], g.by) : j \in 1..Len(g.rows)}
            Group(key) == Where(g.rows, [j \in 1..Len(g.rows) |-> KeyOf(g.rows[j], g.by) = key])
        IN  (/\ c.stage.op = "summarize"
             /\ g.kind = "grouped"
             /\ \A m \in 1..Len(specs) :
                   specs[m].col_name \in Range(g.columns) \ Range(g.by)) =>
                /\ c.raised = "none"
                /\ {c.returned.val.rows[r].index : r \in 1..Len(c.returned.val.rows)} = keys
                /\ Len(c.returned.val.rows) = Cardinality(keys)
                /\ \A r \in 1..Len(c.returned.val.rows) : \A m \in 1..Len(specs) :
                      c.returned.val.rows[r].vals[specs[m].col]
                          = Aggregate(specs[m].func_name,
                                      Column(Frame(g.columns, Group(c.returned.val.rows[r].index)),
                                             specs[m].col_name))

\* C8: a rename stage with a mapping whose old name is no column of the table
\* it receives raises the engine's column-not-found error (KeyError).
C8_RenameAbsentFails ==
    \A n \in 1..Len(calls) :
        LET c == calls[n]
        IN  (/\ c.stage.op = "rename"
             /\ \E m \in 1..Len(c.stage.mappings) :
                   parse_mapping(c.stage.mappings[m])[1] \notin ColSet(c.received.val)) =>
                c.raised = "KeyError"

\* C9: an anti_join stage whose by columns exist in both tables returns the
\* left rows, in order and as they were, whose tuple of by values is the
\* tuple of no right row, for by a name and for by a list of names.
C9_AntiJoinKeepsUnmatched ==
    \A n \in 1..Len(calls) :
        LET c == calls[n]
            left == c.received.val
            right == rights[c.stage.right]
            by == c.stage.by.names
        IN  (/\ c.stage.op = "anti_join"
             /\ Range(by) \subseteq ColSet(left) \cap ColSet(right)) =>
                /\ c.raised = "none"
                /\ c.returned.val =
                      Take(left, [j \in 1..Len(left.rows) |->
                          \A h \in 1..Len(right.rows) :
                              KeyOf(right.rows[h], by) # KeyOf(left.rows[j], by)])

\* C10: an arrange stage whose columns exist returns the received rows in the
\* order of the keys (first key first, " desc" keys descending), and rows
\* equal on every key keep their input order (the received rows are labelled
\* 0, 1, ... in input order).
C10_ArrangeStable ==
    \A n \in 1..Len(calls) :
        LET c == calls[n]
            df == c.received.val
            by == [m \in 1..Len(c.stage.specs) |-> parse_column(c.stage.specs[m])]
            out == c.returned.val.rows
        IN  (/\ c.stage.op = "arrange"
             /\ {by[m].name : m \in 1..Len(by)} \subseteq ColSet(df)
             /\ \A j \in 1..Len(df.rows) : df.rows[j].index = <<j - 1>>) =>
                /\ c.raised = "none"
                /\ Len(out) = Len(df.rows)
                /\ Range(out) = Range(df.rows)
                /\ \A p \in 1..Len(out) : \A q \in (p + 1)..Len(out) :
                      /\ ~Before(out[q], out[p], by)
                      /\ ~Before(out[p], out[q], by) => out[p].index[1] < out[q].index[1]

====
